---- MODULE Spec2Model ----
(***************************************************************************)
(* Model of the scraper of yuletan/Reddit-AI-Dashboard:                    *)
(*   src/scraper/scrape.py  (init_db, clean_summary, fetch_post_data, main)*)
(*   src/ai/summarize.py    (summarize_batch)                              *)
(* The state is the SQLite store (committed tables and the view of the     *)
(* open connection), the local variables of main() and its position.       *)
(***************************************************************************)
EXTENDS Integers, Sequences, FiniteSets, TLC

(***************************************************************************)
(* Bounds of the model.                                                    *)
(***************************************************************************)
MaxId == 2          \* post ids are 1..MaxId
MaxListing == 3     \* longest listing returned by subreddit.hot(limit=...)
NumSubs == 2        \* length of config['subreddits']
MaxRuns == 2        \* number of successive executions of main()
MaxBatchSize == 2   \* config batch_size ranges over 1..MaxBatchSize
MaxComments == 1    \* comments kept per post (limit_per_post)

Ids == 1..MaxId
NULL == "NULL"

SeqsUpTo(S, n) == UNION {[1..k -> S] : k \in 0..n}

Min(S) == CHOOSE x \in S : \A y \in S : x <= y

(***************************************************************************)
(* clean_summary (scrape.py 42-77).  A text is a sequence of tokens:       *)
(*   "w"  one plain word            "w5" a phrase of five plain words      *)
(*   "Tag"  a span <...> or [...]   "NL" a line break                      *)
(*   "PreRequested" "Here is the summary you requested:"                   *)
(*   "PreParagraph" "Here is the summary paragraph:"                       *)
(*   "PreSummary"   "Here is the summary:"                                 *)
(*   "PreShort"     "Summary:"                                             *)
(*   "PreFollowing" "The following is a summary:"                          *)
(*   "Label"  "Comments:"           "Bullet" "-" or "*"     "Num" "1."     *)
(*   "NoSummaryGenerated" the sentinel word                                *)
(***************************************************************************)
Sentinel == <<"NoSummaryGenerated">>

\* number of whitespace-delimited words of a token (text.split(), line 74)
TokenWords(t) ==
    CASE t = "w5" -> 5
      [] t = "PreRequested" -> 6
      [] t = "PreParagraph" -> 5
      [] t = "PreSummary" -> 4
      [] t = "PreFollowing" -> 5
      [] t \in {"NL", "Tag"} -> 0
      [] OTHER -> 1

RECURSIVE WordCount(_)
WordCount(text) ==
    IF text = <<>> THEN 0 ELSE TokenWords(Head(text)) + WordCount(Tail(text))

\* line 52: re.sub of the tag patterns
RemoveTags(text) == SelectSeq(text, LAMBDA t : t # "Tag")

\* lines 56-62: the tokens whose text contains the k-th pattern, ignoring case
PreamblePatterns ==
    << {"PreRequested"},
       {"PreParagraph"},
       {"PreSummary"},
       {"PreSummary", "PreShort", "PreFollowing"},
       {"PreFollowing"} >>

FirstMatch(text, k) ==
    LET hits == {i \in DOMAIN text : text[i] \in PreamblePatterns[k]}
    IN  IF hits = {} THEN 0 ELSE Min(hits)

\* lines 63-66: first pattern that matches; keep what follows its first match
StripPreamble(text) ==
    LET found == {k \in DOMAIN PreamblePatterns : FirstMatch(text, k) # 0}
    IN  IF found = {} THEN text
        ELSE SubSeq(text, FirstMatch(text, Min(found)) + 1, Len(text))

\* str.strip() on tokens: leading and trailing line breaks go
RECURSIVE LStrip(_)
LStrip(text) ==
    IF text # <<>> /\ Head(text) = "NL" THEN LStrip(Tail(text)) ELSE text

RECURSIVE RStrip(_)
RStrip(text) ==
    IF text # <<>> /\ text[Len(text)] = "NL"
    THEN RStrip(SubSeq(text, 1, Len(text) - 1)) ELSE text

Strip(text) == RStrip(LStrip(text))

\* line 69: one label at the very start of the string (no MULTILINE), then strip
StripLabel(text) ==
    LET t == LStrip(text)
    IN  Strip(IF t # <<>> /\ Head(t) = "Label" THEN Tail(t) ELSE text)

\* line 70: a bullet at the start of a line, and every ordinal anywhere
StripMarkers(text) ==
    LET keep == {i \in DOMAIN text :
                    /\ text[i] # "Num"
                    /\ ~(text[i] = "Bullet" /\ (i = 1 \/ text[i - 1] = "NL"))}
        F[i \in 0..Len(text)] ==
            IF i = 0 THEN <<>>
            ELSE IF i \in keep THEN Append(F[i - 1], text[i]) ELSE F[i - 1]
    IN  F[Len(text)]

\* line 71: whitespace runs collapse to one space
CollapseSpace(text) == SelectSeq(text, LAMBDA t : t # "NL")

\* <<>> stands for both falsy inputs of line 47, None and ""
clean_summary(summary_text) ==
    IF summary_text = <<>> \/ summary_text = Sentinel
    THEN Sentinel
    ELSE LET text == CollapseSpace(StripMarkers(StripLabel(
                         StripPreamble(RemoveTags(summary_text)))))
         IN  IF WordCount(text) < 5 THEN Sentinel ELSE text

\* the raw summaries the LLM is let to answer with in the orchestrator model
RawSummaries == { <<"PreSummary", "w5">>, Sentinel }

(***************************************************************************)
(* The store (scrape.py 18-38): two tables, rows in rowid order.           *)
(***************************************************************************)
PostIds(table) == {table[i].id : i \in DOMAIN table}
CommentIds(table) == {table[i].id : i \in DOMAIN table}

\* variant: the posts table without its primary key
InsertPostRaises_NoPrimaryKey(table, id) == FALSE

\* posts.id is PRIMARY KEY (line 25) and lines 194/226 are a plain INSERT:
\* sqlite3 raises IntegrityError when the id is already in the table
InsertPostRaises(table, id) == id \in PostIds(table)

\* variant: the insert sets a cluster id
PostRow_WithCluster(id, subreddit, summary_text) ==
    [id |-> id, subreddit |-> subreddit, summary |-> summary_text,
     cluster_id |-> "0", sentiment |-> NULL]

\* the row of lines 194-200: cluster_id and sentiment are not in the column
\* list, so they get the column default NULL
PostRow(id, subreddit, summary_text) ==
    [id |-> id, subreddit |-> subreddit, summary |-> summary_text,
     cluster_id |-> NULL, sentiment |-> NULL]

\* variant: the statement adds no row
InsertPost_Nothing(table, row) == table

InsertPost(table, row) == Append(table, row)

\* variant: a plain INSERT on a table without a key
RECURSIVE InsertOrIgnoreComments_Plain(_, _, _)
InsertOrIgnoreComments_Plain(table, post_id, top_comments) ==
    IF top_comments = <<>> THEN table
    ELSE InsertOrIgnoreComments_Plain(
             Append(table, [id |-> <<post_id, Head(top_comments)>>,
                            post_id |-> post_id]),
             post_id, Tail(top_comments))

\* lines 201-204: INSERT OR IGNORE of each of the post's top comments
RECURSIVE InsertOrIgnoreComments(_, _, _)
InsertOrIgnoreComments(table, post_id, top_comments) ==
    IF top_comments = <<>> THEN table
    ELSE LET cid == <<post_id, Head(top_comments)>>
             t == IF cid \in CommentIds(table) THEN table
                  ELSE Append(table, [id |-> cid, post_id |-> post_id])
         IN  InsertOrIgnoreComments(t, post_id, Tail(top_comments))

(***************************************************************************)
(* fetch_post_data (scrape.py 79-107).  env is what the source platform    *)
(* does for this post: "error" (retrieval raises), "short" (the combined   *)
(* text has fewer than 200 characters) or the list of its top comments.    *)
(***************************************************************************)
\* the first k comments of the post's comment list (line 84)
CommentLists == {[i \in 1..k |-> i] : k \in 0..MaxComments}
FetchEnvs ==
    [kind : {"error", "short"}, top_comments : {<<>>}]
        \cup [kind : {"ok"}, top_comments : CommentLists]

NonePayload == [kind |-> "None", id |-> 0, top_comments |-> <<>>]
Pending == [kind |-> "pending", id |-> 0, top_comments |-> <<>>]

\* variant: a retrieval error is not turned into None
fetch_post_data_PayloadOnError(post, env) ==
    IF env.kind = "short" THEN NonePayload
    ELSE [kind |-> "payload", id |-> post, top_comments |-> env.top_comments]

fetch_post_data(post, env) ==
    IF env.kind \in {"error", "short"} THEN NonePayload
    ELSE [kind |-> "payload", id |-> post, top_comments |-> env.top_comments]

(***************************************************************************)
(* summarize_batch (summarize.py 220-332).  The outcome of one invocation  *)
(* is decided by the configuration and by the LLM's answer.                *)
(***************************************************************************)
FailureKinds == {"no_api_key", "init_error", "api_error", "no_json", "bad_json"}

NoneMap == [none |-> TRUE, map |-> <<>>]

\* the answers that parse: a JSON object whose keys are ids of the batch
ParsedMaps(batch) ==
    LET keys == {batch[i].id : i \in DOMAIN batch}
    IN  UNION {[K -> RawSummaries] : K \in SUBSET keys}

LLMOutcomes(batch) ==
    [kind : FailureKinds, map : {<<>>}]
        \cup [kind : {"ok"}, map : ParsedMaps(batch)]

\* variant: an answer that does not parse yields a map all the same
summarize_batch_PartialOnBadJson(outcome) ==
    IF outcome.kind = "ok" THEN [none |-> FALSE, map |-> outcome.map]
    ELSE IF outcome.kind = "bad_json"
         THEN [none |-> FALSE, map |-> [id \in Ids |-> <<"w5">>]]
         ELSE NoneMap

\* every failure returns None (lines 235, 287, 316, 329, 332), a parsed
\* answer returns the object (line 323)
summarize_batch(outcome) ==
    IF outcome.kind = "ok" THEN [none |-> FALSE, map |-> outcome.map]
    ELSE NoneMap

\* `if summaries_map:` (lines 186, 219): None and the empty dict are falsy
Truthy(m) == ~m.none /\ DOMAIN m.map # {}

\* variant: the default of .get() is a text, not the sentinel
MapGet_DefaultText(m, id) ==
    IF id \in DOMAIN m.map THEN m.map[id] ELSE <<"w5">>

\* summaries_map.get(post_obj.id, "NoSummaryGenerated") (lines 189, 222)
MapGet(m, id) == IF id \in DOMAIN m.map THEN m.map[id] ELSE Sentinel

(***************************************************************************)
(* main (scrape.py 109-252).  The report counters api_calls (line 113) are *)
(* only incremented and printed; they are not part of this state.          *)
(***************************************************************************)
VARIABLES
    run,                \* which execution of main() this is
    pc,                 \* position of main()
    error,              \* the exception that ended main(), "none" if none
    batch_size,         \* line 136
    sub,                \* index of subreddit_name in subreddits_to_scrape
    posts_to_scrape,    \* ids of the listing of line 149, in listing order
    existing_post_ids,  \* line 151
    new_posts,          \* line 152
    results,            \* results of executor.map, by position (line 166)
    all_posts_data,     \* line 168
    idx,                \* position of the loop of line 177
    post_batch,         \* lines 173, 178, 210
    final,              \* TRUE in the trailing flush of lines 215-238
    summaries_map,      \* lines 184, 218
    pidx,               \* position of the loops of lines 187, 220
    posts, comments,        \* the committed tables
    txPosts, txComments,    \* the tables as the open connection sees them
    total_new_posts,    \* line 112
    llm_outcome,        \* history: what the summarize_batch call of the
                        \*          batch in flight met ("none" between calls)
    submitted,          \* history: the batches passed to summarize_batch
                        \*          for the current all_posts_data
    batch_failed,       \* history: a summarize_batch call of this run failed
    fate                \* history, per id, of this run: "saved" if an INSERT
                        \*   of the id was executed, else "dropped" if its
                        \*   batch failed or its cleaned summary was the
                        \*   sentinel, else "none"

(***************************************************************************)
(* The state of one invocation of summarize_batch (summarize.py 220-332),  *)
(* followed step by step.                                                  *)
(***************************************************************************)
VARIABLES
    sb_pc,              \* position of summarize_batch
    api_key,            \* gemini_config.get('api_key') (line 231)
    model,              \* the client of line 250: "none", "ready" or "error"
    posts_to_summarize, \* the argument (line 220), as the ids of its posts
    response,           \* what model.generate_content did (line 304)
    llm_calls,          \* outbound calls issued by this invocation
    slept,              \* executions of time.sleep(5) (line 305)
    sb_return           \* the value returned

sbvars == <<sb_pc, api_key, model, posts_to_summarize, response, llm_calls, slept,
            sb_return>>

NoResponse == [kind |-> "none", text |-> <<>>]

\* summarize_batch is not running
SBIdle ==
    /\ sb_pc = "idle"
    /\ api_key = "valid"
    /\ model = "none"
    /\ posts_to_summarize = <<>>
    /\ response = NoResponse
    /\ llm_calls = 0
    /\ slept = 0
    /\ sb_return = NoneMap

(***************************************************************************)
(* The state of one invocation of fetch_post_data (scrape.py 79-107),      *)
(* followed step by step.  A text is known by its length and by the length *)
(* of the combined text it is a prefix of.                                 *)
(***************************************************************************)
VARIABLES
    f_pc,               \* position of fetch_post_data
    post,               \* the argument: lengths of title and selftext, the
                        \*   comment tree, whether its retrieval raises
    top_comments,       \* line 84
    discussion_text,    \* lines 86-97
    f_return            \* the value returned

fvars == <<f_pc, post, top_comments, discussion_text, f_return>>

NoPost == [title |-> 0, selftext |-> 0, tree |-> <<>>, raises |-> FALSE]
NoText == [len |-> 0, of |-> 0]
NoReturn == [payload |-> NonePayload, text |-> NoText]

\* fetch_post_data is not running
FetchIdle ==
    /\ f_pc = "idle"
    /\ post = NoPost
    /\ top_comments = <<>>
    /\ discussion_text = NoText
    /\ f_return = NoReturn

(***************************************************************************)
(* The worker threads of the pool of line 164 and the generator returned   *)
(* by executor.map (line 166).                                             *)
(***************************************************************************)
VARIABLES
    task,               \* per position of new_posts: "queued", "running"
                        \*   or "done"
    yielded,            \* the positions whose result the generator of line
                        \*   166 has yielded to line 168, in that order
    raised              \* history: the positions whose retrieval raised

plvars == <<task, yielded, raised>>

\* no pool exists
PoolIdle ==
    /\ task = <<>>
    /\ yielded = <<>>
    /\ raised = {}

(***************************************************************************)
(* clean_summary (scrape.py 42-77) applied to a text and to its own        *)
(* result.                                                                 *)
(***************************************************************************)
VARIABLES
    c_pc,               \* "idle", "start", "once" or "twice"
    c_input,            \* the text given to clean_summary
    once,               \* clean_summary(raw_summary)
    twice               \* clean_summary(once)

cvars == <<c_pc, c_input, once, twice>>

\* clean_summary is not running
CleanIdle ==
    /\ c_pc = "idle"
    /\ c_input = <<>>
    /\ once = <<>>
    /\ twice = <<>>

(***************************************************************************)
(* The summarizer entry of the report counters of main() (scrape.py 113,   *)
(* 183, 217, 250), and the calls that reached the provider.                *)
(***************************************************************************)
VARIABLES
    api_calls,          \* line 113, the entry "ai_summarizer"
    outbound            \* history: the calls of summarize.py line 304
                        \*          executed during this run

callvars == <<api_calls, outbound>>

\* nothing is counted
CallsIdle ==
    /\ api_calls = [ai_summarizer |-> 0]
    /\ outbound = 0

aux == <<sbvars, fvars, plvars, cvars, callvars>>

AuxIdle == SBIdle /\ FetchIdle /\ PoolIdle /\ CleanIdle /\ CallsIdle

vars == <<run, pc, error, batch_size, sub, posts_to_scrape, existing_post_ids,
          new_posts, results, all_posts_data, idx, post_batch, final,
          summaries_map, pidx, posts, comments, txPosts,
          txComments, total_new_posts, llm_outcome, submitted, batch_failed,
          fate, aux>>

mainvars == <<run, pc, error, batch_size, sub, posts_to_scrape,
              existing_post_ids, new_posts, results, all_posts_data, idx,
              post_batch, final, summaries_map, pidx, posts, comments,
              txPosts, txComments, total_new_posts, llm_outcome, submitted,
              batch_failed, fate>>

\* what an invocation of summarize_batch, of fetch_post_data, of
\* clean_summary leaves alone
notSB == <<mainvars, fvars, plvars, cvars, callvars>>
notFetch == <<mainvars, sbvars, plvars, cvars, callvars>>
notClean == <<mainvars, sbvars, fvars, plvars, callvars>>

locals == <<posts_to_scrape, existing_post_ids, new_posts, results,
            all_posts_data, idx, post_batch, final, summaries_map, pidx>>
store == <<posts, comments>>
tx == <<txPosts, txComments>>
counters == <<total_new_posts>>
history == <<llm_outcome, submitted, batch_failed, fate>>

Listings == SeqsUpTo(Ids, MaxListing)

\* the state of main() after lines 111-142
Fresh ==
    /\ pc = "connect"
    /\ error = "none"
    /\ sub = 1
    /\ posts_to_scrape = <<>>
    /\ existing_post_ids = {}
    /\ new_posts = <<>>
    /\ results = <<>>
    /\ all_posts_data = <<>>
    /\ idx = 1
    /\ post_batch = <<>>
    /\ final = FALSE
    /\ summaries_map = NoneMap
    /\ pidx = 1
    /\ total_new_posts = 0
    /\ llm_outcome = "none"
    /\ submitted = <<>>
    /\ batch_failed = FALSE
    /\ fate = [id \in Ids |-> "none"]

\* main() is not running, the store is empty
MainIdle ==
    /\ run = 1
    /\ batch_size = 1
    /\ posts = <<>>
    /\ comments = <<>>
    /\ txPosts = <<>>
    /\ txComments = <<>>
    /\ Fresh

Init ==
    /\ run = 1
    /\ batch_size \in 1..MaxBatchSize
    /\ posts = <<>>
    /\ comments = <<>>
    /\ txPosts = <<>>
    /\ txComments = <<>>
    /\ Fresh
    /\ AuxIdle

\* an exception leaves main(): the process ends and the connection is lost
\* without a commit, so its uncommitted writes are rolled back
Die(e) ==
    /\ pc' = "crashed"
    /\ error' = e
    /\ txPosts' = posts
    /\ txComments' = comments

\* variant: the commit is left out
Commit_Nothing == UNCHANGED <<posts, comments>>

\* conn.commit() (lines 211, 240)
Commit ==
    /\ posts' = txPosts
    /\ comments' = txComments

\* The locals of main() are set back to their first values as soon as they
\* are dead (assigned again before they are read), instead of being carried
\* along: the generators posts_to_scrape and results once consumed (lines
\* 152, 168), new_posts after the pool is joined, summaries_map and the inner
\* loop position after a flush, and all of them at the next iteration of the
\* loop of line 144.
NextCollection ==
    /\ sub' = sub + 1
    /\ pc' = "loop"
    /\ posts_to_scrape' = <<>>
    /\ existing_post_ids' = {}
    /\ new_posts' = <<>>
    /\ results' = <<>>
    /\ all_posts_data' = <<>>
    /\ idx' = 1
    /\ post_batch' = <<>>
    /\ final' = FALSE
    /\ summaries_map' = NoneMap
    /\ pidx' = 1
    /\ llm_outcome' = "none"
    /\ submitted' = <<>>

\* lines 122-131
ConnectReddit ==
    /\ pc = "connect"
    /\ \E ok \in BOOLEAN :
          pc' = IF ok THEN "loop" ELSE "done"
    /\ UNCHANGED <<run, error, batch_size, aux, sub, locals, store, tx, counters,
                   history>>

\* variant: the listing is taken as it is, stored ids included
Discovery_NoFilter(listing, existing) == listing

\* variant: the membership test of line 152 is inverted
Discovery_KeepsExisting(listing, existing) ==
    SelectSeq(listing, LAMBDA id : id \in existing)

\* new_posts of line 152
Discovery(listing, existing) ==
    SelectSeq(listing, LAMBDA id : id \notin existing)

\* lines 144-152, the listing answers
Discover ==
    /\ pc = "loop"
    /\ sub <= NumSubs
    /\ \E listing \in Listings :
          /\ posts_to_scrape' = listing
          /\ existing_post_ids' = PostIds(txPosts)
          /\ new_posts' = Discovery(listing, PostIds(txPosts))
    /\ pc' = "discovered"
    /\ UNCHANGED <<run, error, batch_size, aux, sub, results, all_posts_data, idx,
                   post_batch, final, summaries_map, pidx, store, tx,
                   counters, history>>

\* lines 144-152, iterating the lazy listing raises (no handler in main)
DiscoverRaises ==
    /\ pc = "loop"
    /\ sub <= NumSubs
    /\ existing_post_ids' = PostIds(txPosts)
    /\ Die("ListingError")
    /\ UNCHANGED <<run, batch_size, aux, sub, posts_to_scrape, new_posts, results,
                   all_posts_data, idx, post_batch, final, summaries_map,
                   pidx, store, counters, history>>

\* lines 154-156
SkipCollection ==
    /\ pc = "discovered"
    /\ new_posts = <<>>
    /\ NextCollection
    /\ UNCHANGED <<run, error, batch_size, aux, store, tx, counters,
                   batch_failed, fate>>

\* lines 158-166: every fetch task is handed to the pool
StartFetch ==
    /\ pc = "discovered"
    /\ new_posts # <<>>
    /\ results' = [i \in DOMAIN new_posts |-> Pending]
    /\ posts_to_scrape' = <<>>
    /\ pc' = "fetching"
    /\ UNCHANGED <<run, error, batch_size, aux, sub, existing_post_ids, new_posts,
                   all_posts_data, idx, post_batch, final, summaries_map,
                   pidx, store, tx, counters, history>>

\* one task of the pool runs fetch_post_data to its end
FetchTask ==
    /\ pc = "fetching"
    /\ \E i \in DOMAIN results :
          /\ results[i] = Pending
          /\ \E env \in FetchEnvs :
                results' = [results EXCEPT
                               ![i] = fetch_post_data(new_posts[i], env)]
    /\ UNCHANGED <<run, pc, error, batch_size, aux, sub, posts_to_scrape,
                   existing_post_ids, new_posts, all_posts_data, idx,
                   post_batch, final, summaries_map, pidx, store, tx,
                   counters, history>>

\* line 168: the results in the order of new_posts, without the None ones
NotNone(rs) == SelectSeq(rs, LAMBDA r : r.kind # "None")

\* lines 164-174: the pool is joined, the results are collected
CollectResults ==
    /\ pc = "fetching"
    /\ \A i \in DOMAIN results : results[i] # Pending
    /\ all_posts_data' = NotNone(results)
    /\ results' = <<>>
    /\ new_posts' = <<>>
    /\ post_batch' = <<>>
    /\ idx' = 1
    /\ submitted' = <<>>
    /\ pc' = "batching"
    /\ UNCHANGED <<run, error, batch_size, aux, sub, posts_to_scrape,
                   existing_post_ids, final, summaries_map, pidx, store, tx,
                   counters, llm_outcome, batch_failed, fate>>

\* line 181
BatchFull(batch) == Len(batch) >= batch_size

\* lines 177-182
BatchAppend ==
    /\ pc = "batching"
    /\ idx <= Len(all_posts_data)
    /\ post_batch' = Append(post_batch, all_posts_data[idx])
    /\ idx' = idx + 1
    /\ pc' = IF BatchFull(post_batch') THEN "summarize" ELSE "batching"
    /\ final' = FALSE
    /\ UNCHANGED <<run, error, batch_size, aux, sub, posts_to_scrape,
                   existing_post_ids, new_posts, results, all_posts_data,
                   summaries_map, pidx, store, tx, counters, history>>

\* lines 215-216: the loop is exhausted and a partial batch remains
BatchRemainder ==
    /\ pc = "batching"
    /\ idx > Len(all_posts_data)
    /\ post_batch # <<>>
    /\ pc' = "summarize"
    /\ final' = TRUE
    /\ UNCHANGED <<run, error, batch_size, aux, sub, posts_to_scrape,
                   existing_post_ids, new_posts, results, all_posts_data, idx,
                   post_batch, summaries_map, pidx, store, tx, counters,
                   history>>

BatchIds(batch) == {batch[i].id : i \in DOMAIN batch}

\* lines 183-184, 217-218, as far as the variables of main() above go
SummarizeBatchStep ==
    /\ pc = "summarize"
    /\ \E outcome \in LLMOutcomes(post_batch) :
          /\ summaries_map' = summarize_batch(outcome)
          /\ llm_outcome' = outcome.kind
    /\ pidx' = 1
    /\ submitted' = Append(submitted, post_batch)
    /\ batch_failed' = (batch_failed \/ llm_outcome' \in FailureKinds)
    /\ fate' = IF Truthy(summaries_map') THEN fate
               ELSE [id \in Ids |->
                        IF id \in BatchIds(post_batch) /\ fate[id] = "none"
                        THEN "dropped" ELSE fate[id]]
    /\ pc' = "persist"
    /\ UNCHANGED <<run, error, batch_size, sub, posts_to_scrape,
                   existing_post_ids, new_posts, results, all_posts_data, idx,
                   post_batch, final, store, tx, counters>>

\* lines 183-184, 217-218
SummarizeBatch ==
    /\ SummarizeBatchStep
    /\ UNCHANGED aux

\* lines 187-208, 220-238: one item of the batch
PersistItem ==
    /\ pc = "persist"
    /\ Truthy(summaries_map)
    /\ pidx <= Len(post_batch)
    /\ LET p_data == post_batch[pidx]
           raw_summary == MapGet(summaries_map, p_data.id)
           summary_text == clean_summary(raw_summary)
       IN  IF summary_text # Sentinel
           THEN IF InsertPostRaises(txPosts, p_data.id)
                THEN /\ Die("IntegrityError")
                     /\ UNCHANGED <<pidx, total_new_posts, fate>>
                ELSE /\ txPosts' = InsertPost(txPosts,
                                      PostRow(p_data.id, sub, summary_text))
                     /\ txComments' = InsertOrIgnoreComments(txComments,
                                          p_data.id, p_data.top_comments)
                     /\ total_new_posts' = total_new_posts + 1
                     /\ fate' = [fate EXCEPT ![p_data.id] = "saved"]
                     /\ pidx' = pidx + 1
                     /\ UNCHANGED <<pc, error>>
           ELSE /\ fate' = [fate EXCEPT ![p_data.id] =
                                 IF @ = "none" THEN "dropped" ELSE @]
                /\ pidx' = pidx + 1
                /\ UNCHANGED <<pc, error, tx, total_new_posts>>
    /\ UNCHANGED <<run, batch_size, aux, sub, posts_to_scrape, existing_post_ids,
                   new_posts, results, all_posts_data, idx, post_batch, final,
                   summaries_map, store, llm_outcome, submitted, batch_failed>>

\* the loop of lines 187/220 is over, or was not entered (lines 186/219)
PersistDone == ~Truthy(summaries_map) \/ pidx > Len(post_batch)

\* lines 210-212: a full batch is done
FlushEnd ==
    /\ pc = "persist"
    /\ ~final
    /\ PersistDone
    /\ post_batch' = <<>>
    /\ Commit
    /\ summaries_map' = NoneMap
    /\ pidx' = 1
    /\ llm_outcome' = "none"
    /\ pc' = "batching"
    /\ UNCHANGED <<run, error, batch_size, aux, sub, posts_to_scrape,
                   existing_post_ids, new_posts, results, all_posts_data, idx,
                   final, tx, counters, submitted, batch_failed, fate>>

\* lines 238-241: the trailing batch is done, the collection is committed
FinalFlushEnd ==
    /\ pc = "persist"
    /\ final
    /\ PersistDone
    /\ Commit
    /\ NextCollection
    /\ UNCHANGED <<run, error, batch_size, aux, tx, counters, batch_failed, fate>>

\* lines 215, 240-241: the loop is exhausted and no partial batch remains
CollectionCommit ==
    /\ pc = "batching"
    /\ idx > Len(all_posts_data)
    /\ post_batch = <<>>
    /\ Commit
    /\ NextCollection
    /\ UNCHANGED <<run, error, batch_size, aux, tx, counters, batch_failed, fate>>

\* lines 244-252
Report ==
    /\ pc = "loop"
    /\ sub > NumSubs
    /\ pc' = "done"
    /\ UNCHANGED <<run, error, batch_size, aux, sub, locals, store, tx, counters,
                   history>>

\* main() is executed again on the same database
StartRun ==
    /\ pc \in {"done", "crashed"}
    /\ run < MaxRuns
    /\ run' = run + 1
    /\ pc' = "connect"
    /\ error' = "none"
    /\ sub' = 1
    /\ posts_to_scrape' = <<>>
    /\ existing_post_ids' = {}
    /\ new_posts' = <<>>
    /\ results' = <<>>
    /\ all_posts_data' = <<>>
    /\ idx' = 1
    /\ post_batch' = <<>>
    /\ final' = FALSE
    /\ summaries_map' = NoneMap
    /\ pidx' = 1
    /\ total_new_posts' = 0
    /\ llm_outcome' = "none"
    /\ submitted' = <<>>
    /\ batch_failed' = FALSE
    /\ fate' = [id \in Ids |-> "none"]
    /\ UNCHANGED <<batch_size, aux, store, tx>>

Next ==
    \/ ConnectReddit
    \/ Discover
    \/ DiscoverRaises
    \/ SkipCollection
    \/ StartFetch
    \/ FetchTask
    \/ CollectResults
    \/ BatchAppend
    \/ BatchRemainder
    \/ SummarizeBatch
    \/ PersistItem
    \/ FlushEnd
    \/ FinalFlushEnd
    \/ CollectionCommit
    \/ Report
    \/ StartRun

Spec == Init /\ [][Next]_vars

\* the process is killed (or the machine stops) at any point of a run
Kill ==
    /\ pc \notin {"done", "crashed"}
    /\ Die("Killed")
    /\ UNCHANGED <<run, batch_size, aux, sub, locals, store, counters, history>>

NextKill == Next \/ Kill

SpecKill == Init /\ [][NextKill]_vars

(***************************************************************************)
(* One execution of main() with the summarizer entry of api_calls.         *)
(***************************************************************************)
\* the calls of summarize.py line 304 that an invocation of summarize_batch
\* executes: none when it returns at line 235 or 287, one otherwise
OutboundCalls(kind) == IF kind \in {"no_api_key", "init_error"} THEN 0 ELSE 1

\* lines 183-184, 217-218
SummarizeBatchCounted ==
    /\ SummarizeBatchStep
    /\ api_calls' = [api_calls EXCEPT !.ai_summarizer = @ + 1]
    /\ outbound' = outbound + OutboundCalls(llm_outcome')
    /\ UNCHANGED <<sbvars, fvars, plvars, cvars>>

NextCalls ==
    \/ ConnectReddit
    \/ Discover
    \/ DiscoverRaises
    \/ SkipCollection
    \/ StartFetch
    \/ FetchTask
    \/ CollectResults
    \/ BatchAppend
    \/ BatchRemainder
    \/ SummarizeBatchCounted
    \/ PersistItem
    \/ FlushEnd
    \/ FinalFlushEnd
    \/ CollectionCommit
    \/ Report

SpecCalls == Init /\ [][NextCalls]_vars

(***************************************************************************)
(* The downstream jobs, run between two executions of the scraper on the   *)
(* same database: cluster.py gives a cluster id to the rows that have none *)
(* (lines 59, 104-111), sentiment.py a score to the rows that have none    *)
(* (lines 28, 57).                                                         *)
(***************************************************************************)
\* UPDATE posts SET column = value WHERE id = ?, for the rows selected by
\* column IS NULL
Annotate(table, column) ==
    [k \in DOMAIN table |->
        IF table[k][column] = NULL THEN [table[k] EXCEPT ![column] = "0"]
        ELSE table[k]]

ClusterJob ==
    /\ pc \in {"done", "crashed"}
    /\ posts' = Annotate(posts, "cluster_id")
    /\ posts' # posts
    /\ txPosts' = posts'
    /\ UNCHANGED <<run, pc, error, batch_size, aux, sub, locals, comments,
                   txComments, counters, history>>

SentimentJob ==
    /\ pc \in {"done", "crashed"}
    /\ posts' = Annotate(posts, "sentiment")
    /\ posts' # posts
    /\ txPosts' = posts'
    /\ UNCHANGED <<run, pc, error, batch_size, aux, sub, locals, comments,
                   txComments, counters, history>>

NextDownstream == Next \/ ClusterJob \/ SentimentJob

SpecDownstream == Init /\ [][NextDownstream]_vars

(***************************************************************************)
(* summarize_batch (summarize.py 220-332) step by step.  The configuration *)
(* is a mapping whose 'gemini' entry, when present, is a mapping.  The     *)
(* response text is a sequence of tokens: "{", "}", "pair" (one            *)
(* "id": "summary" member, separators included) and "pad" (any other       *)
(* text).  strip() (line 306) removes no token.                            *)
(***************************************************************************)
MaxResponseLen == 4

Max(S) == CHOOSE x \in S : \A y \in S : y <= x

\* line 231: no entry (None), an empty string, the placeholder of the
\* settings template, or a key
ApiKeys == {"None", "", "placeholder", "valid"}

\* variant: the placeholder passes for a key
ApiKeyUnusable_AcceptsPlaceholder(key) == key \in {"None", ""}

\* line 233
ApiKeyUnusable(key) == key \in {"None", ""} \/ key = "placeholder"

Tok(t) == [t |-> t, id |-> 0]
Pair(id) == [t |-> "pair", id |-> id]
ResponseTokens == {Tok("{"), Tok("}"), Tok("pad")} \cup {Pair(id) : id \in Ids}

\* what the provider does with the call of line 304: the call raises, or
\* the response has no text (response.text raises, line 306), or it has one
Responses ==
    [kind : {"raises", "blocked"}, text : {<<>>}]
        \cup [kind : {"text"}, text : SeqsUpTo(ResponseTokens, MaxResponseLen)]

\* str.find: the 0-based index of the first occurrence, -1 if none
Find(text, t) ==
    IF \E i \in DOMAIN text : text[i].t = t
    THEN Min({i \in DOMAIN text : text[i].t = t}) - 1
    ELSE -1

\* variant: the end of the span is the first '}'
RFind_First(text, t) == Find(text, t)

\* str.rfind: the 0-based index of the last occurrence, -1 if none
RFind(text, t) ==
    IF \E i \in DOMAIN text : text[i].t = t
    THEN Max({i \in DOMAIN text : text[i].t = t}) - 1
    ELSE -1

\* text[a:b]
Slice(text, a, b) == SubSeq(text, a + 1, b)

\* json.loads (line 320) accepts the text of one object
JsonValid(s) ==
    /\ Len(s) >= 2
    /\ s[1].t = "{"
    /\ s[Len(s)].t = "}"
    /\ \A i \in 2..(Len(s) - 1) : s[i].t = "pair"

\* the dict of a valid object
JsonLoads(s) == [id \in {s[i].id : i \in 2..(Len(s) - 1)} |-> <<"w5">>]

\* lines 311-323 with the handler of line 326
ParseResponse(text) ==
    LET json_start == Find(text, "{")
        json_end == RFind(text, "}") + 1
        json_string == Slice(text, json_start, json_end)
    IN  IF json_start = -1 \/ json_end = 0
        THEN [kind |-> "no_json", map |-> <<>>]
        ELSE IF ~JsonValid(json_string)
             THEN [kind |-> "bad_json", map |-> <<>>]
             ELSE [kind |-> "ok", map |-> JsonLoads(json_string)]

Failed(kind) == [kind |-> kind, map |-> <<>>]

\* summarize_batch is called
InitSB ==
    /\ MainIdle
    /\ FetchIdle
    /\ PoolIdle
    /\ CleanIdle
    /\ CallsIdle
    /\ sb_pc = "enter"
    /\ api_key \in ApiKeys
    /\ model = "none"
    /\ posts_to_summarize \in SeqsUpTo(Ids, MaxBatchSize)
    /\ response = NoResponse
    /\ llm_calls = 0
    /\ slept = 0
    /\ sb_return = NoneMap

\* lines 229-235
SB_CheckKey ==
    /\ sb_pc = "enter"
    /\ IF ApiKeyUnusable(api_key)
       THEN /\ sb_return' = summarize_batch(Failed("no_api_key"))
            /\ sb_pc' = "returned"
       ELSE /\ sb_pc' = "init"
            /\ UNCHANGED sb_return
    /\ UNCHANGED <<api_key, model, posts_to_summarize, response, llm_calls,
                   slept, notSB>>

\* lines 237-287
SB_InitModel ==
    /\ sb_pc = "init"
    /\ \E ok \in BOOLEAN :
          IF ok
          THEN /\ model' = "ready"
               /\ sb_pc' = "call"
               /\ UNCHANGED sb_return
          ELSE /\ model' = "error"
               /\ sb_return' = summarize_batch(Failed("init_error"))
               /\ sb_pc' = "returned"
    /\ UNCHANGED <<api_key, posts_to_summarize, response, llm_calls, slept,
                   notSB>>

\* lines 290-304: the request is sent
SB_Call ==
    /\ sb_pc = "call"
    /\ llm_calls' = llm_calls + 1
    /\ sb_pc' = "waiting"
    /\ UNCHANGED <<api_key, model, posts_to_summarize, response, slept,
                   sb_return, notSB>>

\* line 304 returns or raises (handler of lines 330-332)
SB_Answer ==
    /\ sb_pc = "waiting"
    /\ \E r \in Responses :
          /\ response' = r
          /\ IF r.kind = "raises"
             THEN /\ sb_return' = summarize_batch(Failed("api_error"))
                  /\ sb_pc' = "returned"
             ELSE /\ sb_pc' = "sleep"
                  /\ UNCHANGED sb_return
    /\ UNCHANGED <<api_key, model, posts_to_summarize, llm_calls, slept,
                   notSB>>

\* line 305
SB_Sleep ==
    /\ sb_pc = "sleep"
    /\ slept' = slept + 1
    /\ sb_pc' = "parse"
    /\ UNCHANGED <<api_key, model, posts_to_summarize, response, llm_calls,
                   sb_return, notSB>>

\* lines 306-332
SB_Parse ==
    /\ sb_pc = "parse"
    /\ sb_return' = IF response.kind = "blocked"
                    THEN summarize_batch(Failed("api_error"))
                    ELSE summarize_batch(ParseResponse(response.text))
    /\ sb_pc' = "returned"
    /\ UNCHANGED <<api_key, model, posts_to_summarize, response, llm_calls,
                   slept, notSB>>

NextSB ==
    \/ SB_CheckKey
    \/ SB_InitModel
    \/ SB_Call
    \/ SB_Answer
    \/ SB_Sleep
    \/ SB_Parse

SpecSB == InitSB /\ [][NextSB]_vars

\* every statement of summarize_batch is executed in the end; nothing in
\* the code bounds the time the provider takes to answer the call of line 304
SpecSBFair ==
    /\ SpecSB
    /\ WF_vars(SB_CheckKey)
    /\ WF_vars(SB_InitModel)
    /\ WF_vars(SB_Call)
    /\ WF_vars(SB_Sleep)
    /\ WF_vars(SB_Parse)


(***************************************************************************)
(* fetch_post_data (scrape.py 79-107) step by step.                        *)
(***************************************************************************)
MaxTreeLen == 2     \* longest comment tree of a post

MinChars == 200     \* line 91
max_chars == 20000  \* line 95
FixedChars == 43    \* the characters of line 86 around title and selftext
CommentChars == 10  \* the characters of line 89 around a comment's body

\* a comment of the tree, with its body's length; an object without a body
\* attribute has has_body FALSE (line 88)
Comments == [has_body : {TRUE}, body : {0, 1}]
                \cup [has_body : {FALSE}, body : {0}]

\* the selftext lengths that bring the combined text around each threshold
SelftextLens ==
    {0} \cup {MinChars - FixedChars + d : d \in {-1, 0, 1}}
        \cup {max_chars - FixedChars + d : d \in {-1, 0, 1}}

Posts ==
    [title : {0, 1}, selftext : SelftextLens,
     tree : SeqsUpTo(Comments, MaxTreeLen), raises : BOOLEAN]

\* list[:n]
Take(list, n) == SubSeq(list, 1, IF Len(list) < n THEN Len(list) ELSE n)

\* the length of the text built by lines 86-89
RECURSIVE CommentsLength(_)
CommentsLength(cs) ==
    IF cs = <<>> THEN 0
    ELSE (IF Head(cs).has_body THEN CommentChars + Head(cs).body ELSE 0)
             + CommentsLength(Tail(cs))

CombinedLength(p, cs) == FixedChars + p.title + p.selftext + CommentsLength(cs)

\* variant: a text of exactly the minimum length is rejected too
TooShort_Inclusive(text) == text.len <= MinChars

\* line 91
TooShort(text) == text.len < MinChars

\* lines 95-97
Truncate(text) ==
    IF text.len > max_chars THEN [text EXCEPT !.len = max_chars] ELSE text

\* fetch_post_data is called
InitFetch ==
    /\ MainIdle
    /\ SBIdle
    /\ PoolIdle
    /\ CleanIdle
    /\ CallsIdle
    /\ f_pc = "enter"
    /\ post \in Posts
    /\ top_comments = <<>>
    /\ discussion_text = NoText
    /\ f_return = NoReturn

\* lines 81-84, with the handler of lines 105-107; limit_per_post is
\* MaxComments
F_Retrieve ==
    /\ f_pc = "enter"
    /\ IF post.raises
       THEN /\ f_return' = [payload |-> fetch_post_data(1,
                                 [kind |-> "error", top_comments |-> <<>>]),
                            text |-> NoText]
            /\ f_pc' = "returned"
            /\ UNCHANGED top_comments
       ELSE /\ top_comments' = Take(post.tree, MaxComments)
            /\ f_pc' = "build"
            /\ UNCHANGED f_return
    /\ UNCHANGED <<post, discussion_text, notFetch>>

\* lines 86-89
F_Build ==
    /\ f_pc = "build"
    /\ LET n == CombinedLength(post, top_comments)
       IN  discussion_text' = [len |-> n, of |-> n]
    /\ f_pc' = "check"
    /\ UNCHANGED <<post, top_comments, f_return, notFetch>>

\* lines 91-104
F_Return ==
    /\ f_pc = "check"
    /\ IF TooShort(discussion_text)
       THEN /\ f_return' = [payload |-> fetch_post_data(1,
                                 [kind |-> "short", top_comments |-> <<>>]),
                            text |-> NoText]
            /\ UNCHANGED discussion_text
       ELSE /\ discussion_text' = Truncate(discussion_text)
            /\ f_return' =
                  [payload |-> fetch_post_data(1,
                       [kind |-> "ok",
                        top_comments |-> [i \in DOMAIN top_comments |-> i]]),
                   text |-> discussion_text']
    /\ f_pc' = "returned"
    /\ UNCHANGED <<post, top_comments, notFetch>>

NextFetch ==
    \/ F_Retrieve
    \/ F_Build
    \/ F_Return

SpecFetch == InitFetch /\ [][NextFetch]_vars

(***************************************************************************)
(* The parallel phase of one collection (scrape.py 162-168) thread by      *)
(* thread, followed by main() up to the inserts of the first batch.        *)
(***************************************************************************)
MaxPoolTasks == 11  \* len(new_posts)
MaxRaising == 1     \* retrievals of the collection that raise

max_workers == 10   \* line 164

Running(ts) == {i \in DOMAIN ts : ts[i] = "running"}

\* what the source platform does for a post of this collection, given the
\* positions whose retrieval has raised
PoolEnvs(errs) ==
    {env \in FetchEnvs :
        /\ env.top_comments = <<>>
        /\ env.kind # "short"
        /\ env.kind = "error" => Cardinality(errs) < MaxRaising}

\* variant: a thread is started for every task
CanStart_NoLimit(ts) == TRUE

\* ThreadPoolExecutor starts a thread for a submitted task only while it has
\* fewer than max_workers threads, and each thread runs one task at a time
CanStart(ts) == Cardinality(Running(ts)) < max_workers

\* variant: the results are taken as the tasks complete
NextResult_AsCompleted(ys, ts) ==
    {i \in DOMAIN ts : ts[i] = "done" /\ \A j \in DOMAIN ys : ys[j] # i}

\* the generator of executor.map yields the results in the order of the
\* arguments, waiting for each
NextResult(ys, ts) == {i \in DOMAIN ts : i = Len(ys) + 1 /\ ts[i] = "done"}

\* lines 164-166: the listing had MaxPoolTasks new posts, every fetch task
\* has been submitted
InitPool ==
    /\ run = 1
    /\ batch_size \in 1..MaxBatchSize
    /\ posts = <<>>
    /\ comments = <<>>
    /\ txPosts = <<>>
    /\ txComments = <<>>
    /\ pc = "fetching"
    /\ error = "none"
    /\ sub = 1
    /\ posts_to_scrape = <<>>
    /\ existing_post_ids = {}
    /\ new_posts = [i \in 1..MaxPoolTasks |-> i]
    /\ results = [i \in 1..MaxPoolTasks |-> Pending]
    /\ all_posts_data = <<>>
    /\ idx = 1
    /\ post_batch = <<>>
    /\ final = FALSE
    /\ summaries_map = NoneMap
    /\ pidx = 1
    /\ total_new_posts = 0
    /\ llm_outcome = "none"
    /\ submitted = <<>>
    /\ batch_failed = FALSE
    /\ fate = [id \in Ids |-> "none"]
    /\ task = [i \in 1..MaxPoolTasks |-> "queued"]
    /\ yielded = <<>>
    /\ raised = {}
    /\ SBIdle
    /\ FetchIdle
    /\ CleanIdle
    /\ CallsIdle

\* a worker thread takes the oldest queued task
PL_Start ==
    /\ pc = "fetching"
    /\ CanStart(task)
    /\ \E i \in DOMAIN task :
          /\ task[i] = "queued"
          /\ \A j \in 1..(i - 1) : task[j] # "queued"
          /\ task' = [task EXCEPT ![i] = "running"]
    /\ UNCHANGED <<mainvars, yielded, raised, sbvars, fvars, cvars, callvars>>

\* a worker thread runs fetch_post_data (lines 79-107) to its end
PL_Finish ==
    /\ pc = "fetching"
    /\ \E i \in Running(task) :
          \E env \in PoolEnvs(raised) :
             /\ results' = [results EXCEPT
                               ![i] = fetch_post_data(new_posts[i], env)]
             /\ task' = [task EXCEPT ![i] = "done"]
             /\ raised' = IF env.kind = "error" THEN raised \cup {i}
                          ELSE raised
    /\ UNCHANGED <<run, pc, error, batch_size, sub, posts_to_scrape,
                   existing_post_ids, new_posts, all_posts_data, idx,
                   post_batch, final, summaries_map, pidx, store, tx,
                   counters, history, yielded, sbvars, fvars, cvars, callvars>>

\* line 168: the comprehension takes the next result
PL_Yield ==
    /\ pc = "fetching"
    /\ \E i \in NextResult(yielded, task) :
          yielded' = Append(yielded, i)
    /\ UNCHANGED <<mainvars, task, raised, sbvars, fvars, cvars, callvars>>

\* lines 168-174: the generator is exhausted, the with block is left
PL_Join ==
    /\ pc = "fetching"
    /\ Len(yielded) = Len(new_posts)
    /\ all_posts_data' = NotNone([j \in DOMAIN yielded |-> results[yielded[j]]])
    /\ post_batch' = <<>>
    /\ idx' = 1
    /\ submitted' = <<>>
    /\ pc' = "batching"
    /\ UNCHANGED <<run, error, batch_size, sub, posts_to_scrape,
                   existing_post_ids, new_posts, results, final,
                   summaries_map, pidx, store, tx, counters, llm_outcome,
                   batch_failed, fate, aux>>

NextPool ==
    \/ PL_Start
    \/ PL_Finish
    \/ PL_Yield
    \/ PL_Join
    \/ BatchAppend
    \/ SummarizeBatch
    \/ PersistItem

SpecPool == InitPool /\ [][NextPool]_vars

(***************************************************************************)
(* clean_summary (scrape.py 42-77) applied twice.                          *)
(***************************************************************************)
MaxSummaryLen == 3  \* longest text given to clean_summary, in tokens

SummaryTokens ==
    {"w", "w5", "Tag", "NL", "PreRequested", "PreParagraph", "PreSummary",
     "PreShort", "PreFollowing", "Label", "Bullet", "Num"}

\* None or "" (the empty sequence), the sentinel, or a text
SummaryTexts == SeqsUpTo(SummaryTokens, MaxSummaryLen) \cup {Sentinel}

InitClean ==
    /\ MainIdle
    /\ SBIdle
    /\ FetchIdle
    /\ PoolIdle
    /\ CallsIdle
    /\ c_pc = "start"
    /\ c_input \in SummaryTexts
    /\ once = <<>>
    /\ twice = <<>>

CleanOnce ==
    /\ c_pc = "start"
    /\ once' = clean_summary(c_input)
    /\ c_pc' = "once"
    /\ UNCHANGED <<c_input, twice, notClean>>

CleanTwice ==
    /\ c_pc = "once"
    /\ twice' = clean_summary(once)
    /\ c_pc' = "twice"
    /\ UNCHANGED <<c_input, once, notClean>>

NextClean ==
    \/ CleanOnce
    \/ CleanTwice

SpecClean == InitClean /\ [][NextClean]_vars

(***************************************************************************)
(* Properties.                                                             *)
(***************************************************************************)
\* the item the loop of lines 187/220 is at
AtItem == pc = "persist" /\ Truthy(summaries_map) /\ pidx <= Len(post_batch)

\* the item is one the code saves (line 192/224)
ItemToSave ==
    clean_summary(MapGet(summaries_map, post_batch[pidx].id)) # Sentinel

\* C1: when main persists an item whose id is already in the posts table,
\* the insert is a silent no-op: no error is raised, the table is unchanged
\* and the run goes on with the next item.
C1_DuplicateInsertIsNoOp ==
    [][(AtItem /\ ItemToSave /\ post_batch[pidx].id \in PostIds(txPosts))
          => /\ error' = "none"
             /\ pc' = "persist"
             /\ pidx' = pidx + 1
             /\ txPosts' = txPosts]_vars

\* C2: in every reachable state of the store, the committed one and the one
\* the open connection sees, the posts table holds at most one row per id.
OneRowPerId(table) ==
    \A i, j \in DOMAIN table : table[i].id = table[j].id => i = j

C2_OneRowPerId == OneRowPerId(posts) /\ OneRowPerId(txPosts)

\* C2, its case: a second insert of an id whose row is already committed
C2_Witness ==
    /\ error = "IntegrityError"
    /\ post_batch[pidx].id \in PostIds(posts)

\* C6: a connectivity failure met while a collection is processed, the one
\* raised while its lazy listing is iterated included, does not end the run.
C6_ListingErrorDoesNotCrash == ~(pc = "crashed" /\ error = "ListingError")

\* the i-th smallest element of a set of positions
RECURSIVE Nth(_, _)
Nth(S, i) == IF i = 1 THEN Min(S) ELSE Nth(S \ {Min(S)}, i - 1)

\* C7: discovery returns exactly the candidates of the listing whose id is
\* absent from the store at the time of the one id read, in listing order;
\* when every id of the listing is stored, the collection is skipped with no
\* fetch, no summarization call and no store write.
C7_Discovery ==
    /\ [](pc = "discovered" =>
            LET unseen == {i \in DOMAIN posts_to_scrape :
                              posts_to_scrape[i] \notin PostIds(posts)}
            IN  /\ existing_post_ids = PostIds(posts)
                /\ Len(new_posts) = Cardinality(unseen)
                /\ \A k \in DOMAIN new_posts :
                      new_posts[k] = posts_to_scrape[Nth(unseen, k)])
    /\ [][(pc = "discovered"
             /\ \A i \in DOMAIN posts_to_scrape :
                   posts_to_scrape[i] \in PostIds(posts))
          => /\ pc' = "loop"
             /\ sub' = sub + 1
             /\ UNCHANGED <<store, tx, total_new_posts, submitted,
                            all_posts_data>>]_vars

\* C7, its case: a listing of ids that are all stored already
C7_Witness ==
    /\ pc = "discovered"
    /\ Len(posts_to_scrape) >= 2
    /\ \A i \in DOMAIN posts_to_scrape : posts_to_scrape[i] \in PostIds(posts)

\* a step that ends the flush of a batch (lines 210-211, or 238-240)
FlushStep == pc = "persist" /\ PersistDone /\ pc' \in {"batching", "loop"}

HasComments(table, id) == \E j \in DOMAIN table : table[j].post_id = id

\* C3 (as claimed): if summarize_batch fails for a batch, then after the
\* batch is flushed no item of the batch and no comment of such an item is in
\* the store.
C3_FailedBatchNotInStore ==
    [][(FlushStep /\ llm_outcome \in FailureKinds)
          => \A i \in DOMAIN post_batch :
                /\ post_batch[i].id \notin PostIds(posts')
                /\ ~HasComments(comments', post_batch[i].id)]_vars

\* C3 (amended): if summarize_batch fails for a batch, full or trailing, the
\* flush of that batch writes nothing: both tables are after the flush what
\* they were before it, and an item of the batch or a comment of it is in the
\* store only if an earlier batch of the same run saved the same id.
C3_FailedFlushWritesNothing ==
    [][(FlushStep /\ llm_outcome \in FailureKinds)
          => /\ posts' = posts
             /\ comments' = comments
             /\ \A i \in DOMAIN post_batch :
                   (\/ post_batch[i].id \in PostIds(posts')
                    \/ HasComments(comments', post_batch[i].id))
                      => fate[post_batch[i].id] = "saved"]_vars

\* C3, its case: a trailing batch failed, after rows were stored, and holds
\* an item that is not in the store
C3_Witness ==
    /\ pc = "persist"
    /\ llm_outcome \in FailureKinds
    /\ final
    /\ posts # <<>>
    /\ \E i \in DOMAIN post_batch : post_batch[i].id \notin PostIds(posts)

\* the cleaned summary the code computes for an id of the batch in flight
Summarized(id) ==
    /\ id \in DOMAIN summaries_map.map
    /\ clean_summary(summaries_map.map[id]) # Sentinel

RealSummary(table) ==
    \A k \in DOMAIN table :
        table[k].summary # Sentinel /\ WordCount(table[k].summary) >= 5

\* C4 (as claimed): for a batch whose call succeeded, an item of the batch
\* is in the store after the flush iff its id is a key of the map and the
\* cleaned value is not the sentinel; no row has a null or sentinel summary.
C4_StoredIffSummarized ==
    /\ [][(FlushStep /\ llm_outcome = "ok")
            => \A i \in DOMAIN post_batch :
                  post_batch[i].id \in PostIds(posts')
                      <=> Summarized(post_batch[i].id)]_vars
    /\ [](RealSummary(posts) /\ RealSummary(txPosts))

\* C4 (amended): for a batch whose call succeeded, once its flush is done the
\* flush has inserted a row for an item of the batch iff its id is a key of
\* the map and the cleaned value is not the sentinel, and that row holds the
\* cleaned value; no row has a null or sentinel summary.
C4_InsertedIffSummarized ==
    /\ [][(FlushStep /\ llm_outcome = "ok")
            => LET new == (Len(posts) + 1)..Len(posts')
               IN  /\ \A i \in DOMAIN post_batch :
                         (\E k \in new : posts'[k].id = post_batch[i].id)
                             <=> Summarized(post_batch[i].id)
                   /\ \A k \in new :
                         /\ posts'[k].id \in BatchIds(post_batch)
                         /\ posts'[k].summary =
                               clean_summary(summaries_map.map[posts'[k].id])
            ]_vars
    /\ [](RealSummary(posts) /\ RealSummary(txPosts))

\* C4, its case: the flush of a succeeded batch that saved one item and
\* dropped another
C4_Witness ==
    /\ pc = "persist"
    /\ PersistDone
    /\ llm_outcome = "ok"
    /\ \E i, j \in DOMAIN post_batch :
          /\ post_batch[i].id \in PostIds(txPosts) \ PostIds(posts)
          /\ post_batch[j].id \notin PostIds(txPosts)

\* C5: after summarize_batch failed for a batch, main still flushes the
\* later batches, processes the later collections and reaches the report:
\* the run is not ended by an exception.
C5_FailedBatchNonFatal == batch_failed => pc # "crashed"

RECURSIVE Flatten(_)
Flatten(batches) ==
    IF batches = <<>> THEN <<>> ELSE Head(batches) \o Flatten(Tail(batches))

\* C9: when main is no longer batching a collection, the batches passed to
\* summarize_batch, concatenated in call order, are the payload list; every
\* batch is non-empty and of at most batch_size items, every batch but the
\* last of exactly batch_size.
C9_BatchesPartitionPayloads ==
    pc \notin {"batching", "summarize", "persist"} =>
        /\ Flatten(submitted) = all_posts_data
        /\ \A k \in DOMAIN submitted :
              /\ Len(submitted[k]) >= 1
              /\ Len(submitted[k]) <= batch_size
              /\ k < Len(submitted) => Len(submitted[k]) = batch_size

\* C10: the transaction is committed once per flushed batch: uncommitted
\* writes exist only while a batch is persisted and are rows of that batch,
\* so when a batch is summarized every earlier row is committed; the
\* committed tables change only at the end of a flush, to all that was
\* written, so a crash leaves the earlier batches' rows in full and none of
\* the batch in flight.
C10_CommitPerBatch ==
    /\ []((txPosts # posts \/ txComments # comments) =>
            /\ pc = "persist"
            /\ Len(posts) <= Len(txPosts)
            /\ SubSeq(txPosts, 1, Len(posts)) = posts
            /\ \A k \in (Len(posts) + 1)..Len(txPosts) :
                  txPosts[k].id \in BatchIds(post_batch)
            /\ Len(comments) <= Len(txComments)
            /\ SubSeq(txComments, 1, Len(comments)) = comments
            /\ \A k \in (Len(comments) + 1)..Len(txComments) :
                  txComments[k].post_id \in BatchIds(post_batch))
    /\ [][(posts' # posts \/ comments' # comments)
            => /\ FlushStep
               /\ posts' = txPosts
               /\ comments' = txComments]_vars

\* C10, its case: rows of the batch in flight are written and not committed,
\* after an earlier batch of the run was committed
C10_Witness ==
    /\ pc = "persist"
    /\ Len(txPosts) > Len(posts)
    /\ \E k \in DOMAIN posts : fate[posts[k].id] = "saved"

\* C11 (as stated): every invocation of summarize_batch, whatever its
\* outcome, has issued exactly one outbound call when it returns
C11_ExactlyOneCall == sb_pc = "returned" => llm_calls = 1

\* C11 (amended): an invocation issues at most one outbound call: none when
\* it returns before the call (credential missing or a placeholder, model
\* initialisation raises), exactly one in every other case
C11_OneCallOnceStarted ==
    /\ llm_calls <= 1
    /\ sb_pc = "returned" =>
          llm_calls = IF api_key \in {"None", "", "placeholder"}
                         \/ model = "error"
                      THEN 0 ELSE 1

C11_Witness ==
    /\ sb_pc = "returned"
    /\ llm_calls = 1
    /\ response.kind = "raises"
    /\ Len(posts_to_summarize) = MaxBatchSize

\* C12: when summarize_batch returns, the delay of line 305 has been taken
\* once for each outbound call it made, whatever the call's outcome
C12_DelayAfterEveryCall == sb_pc = "returned" => slept = llm_calls

C13_Span ==
    LET text == response.text
        opens == {i \in DOMAIN text : text[i].t = "{"}
        closes == {i \in DOMAIN text : text[i].t = "}"}
    IN  IF opens = {} \/ closes = {} THEN <<>>
        ELSE SubSeq(text, Min(opens), Max(closes))

C13_FailureCondition ==
    \/ api_key \in {"None", "", "placeholder"}
    \/ model = "error"
    \/ response.kind \in {"raises", "blocked"}
    \/ ~\E i \in DOMAIN response.text : response.text[i].t = "{"
    \/ ~\E i \in DOMAIN response.text : response.text[i].t = "}"
    \/ ~JsonValid(C13_Span)

C19_EventuallyReturns == <>(sb_pc = "returned")

\* the length of the combined text of the post at hand
C14_Length ==
    LET kept == SubSeq(post.tree, 1, IF Len(post.tree) < MaxComments
                                     THEN Len(post.tree) ELSE MaxComments)
    IN  CombinedLength(post, kept)

\* C14: when the comment retrieval succeeds, fetch_post_data returns None
\* exactly when the combined text has fewer than 200 characters; otherwise
\* the payload's text is the prefix of the combined text of length
\* min(length, 20000), so its length is between 200 and 20000
C14_LengthWindow ==
    (f_pc = "returned" /\ ~post.raises) =>
        /\ (f_return.payload = NonePayload) <=> (C14_Length < 200)
        /\ f_return.payload # NonePayload =>
              /\ f_return.text.of = C14_Length
              /\ f_return.text.len = IF C14_Length < 20000 THEN C14_Length
                                     ELSE 20000
              /\ f_return.text.len >= 200
              /\ f_return.text.len <= 20000

C14_Witness ==
    /\ f_pc = "returned"
    /\ f_return.payload # NonePayload
    /\ f_return.text.len = 20000
    /\ f_return.text.of > 20000
    /\ Len(top_comments) = MaxComments

\* C15: a retrieval error makes fetch_post_data return None for that
\* position of new_posts only: the result of a finished task never changes,
\* the other tasks can still run and have all finished when the pool is
\* left, each with the payload of its own post, and no payload of a failed
\* position is in all_posts_data or in a batch
C15_FetchFailureIsolated ==
    /\ [](\A i \in DOMAIN task :
             task[i] = "done" =>
                results[i] = IF i \in raised THEN NonePayload
                             ELSE [kind |-> "payload", id |-> new_posts[i],
                                   top_comments |-> <<>>])
    /\ [][\A i \in DOMAIN task :
             task[i] = "done" => results'[i] = results[i]]_vars
    /\ []((pc = "fetching" /\ \E i \in DOMAIN task : task[i] # "done") =>
             \/ \E i \in DOMAIN task : task[i] = "running"
             \/ Cardinality({i \in DOMAIN task : task[i] = "running"}) < 10)
    /\ [](pc # "fetching" => \A i \in DOMAIN task : task[i] = "done")
    /\ [](\A i \in raised :
             /\ \A j \in DOMAIN all_posts_data :
                   all_posts_data[j].id # new_posts[i]
             /\ \A j \in DOMAIN post_batch : post_batch[j].id # new_posts[i])

C15_Witness ==
    /\ pc = "persist"
    /\ raised = {1}
    /\ post_batch[1].id = new_posts[2]

\* C16: at most 10 fetch tasks run at once; while a fetch task of the
\* collection is queued or running, main() is in the parallel phase, no
\* batch holds a payload, no batch has been passed to summarize_batch and
\* no step changes the tables
C16_Barrier ==
    /\ [](Cardinality({i \in DOMAIN task : task[i] = "running"}) <= 10)
    /\ []((\E i \in DOMAIN task : task[i] # "done") =>
             /\ pc = "fetching"
             /\ post_batch = <<>>
             /\ submitted = <<>>)
    /\ [][(\E i \in DOMAIN task : task[i] # "done") =>
             UNCHANGED <<posts, comments, txPosts, txComments>>]_vars

C16_Witness ==
    /\ Cardinality({i \in DOMAIN task : task[i] = "running"}) = 10
    /\ \E i \in DOMAIN task : task[i] = "queued"

\* the payloads of the collection in listing order
C20_InListingOrder == SelectSeq(results, LAMBDA r : r.kind = "payload")

\* C20: whatever the order in which the fetch tasks start and finish, line
\* 168 takes their results in the order of new_posts; once the parallel
\* phase is over all_posts_data is the results in that order without the
\* None ones, and the first batch is its beginning
C20_ListingOrder ==
    /\ \A j \in DOMAIN yielded : yielded[j] = j
    /\ pc # "fetching" =>
          /\ all_posts_data = C20_InListingOrder
          /\ \A j \in 1..(Len(all_posts_data) - 1) :
                all_posts_data[j].id < all_posts_data[j + 1].id
          /\ post_batch = SubSeq(C20_InListingOrder, 1, Len(post_batch))

C20_Witness ==
    /\ pc = "summarize"
    /\ raised = {2}
    /\ Len(post_batch) = 2
    /\ post_batch[2].id = new_posts[3]

\* C18: clean_summary applied to its own result gives that result again
C18_Idempotent == c_pc = "twice" => twice = once

\* a step of the scraper, not of a downstream job
C17_ScraperStep == pc \notin {"done", "crashed"}

\* C17: every row the scraper inserts into posts has cluster_id and
\* sentiment NULL, and no step of the scraper changes a row that is in the
\* table, in the committed table or in the one its connection sees
C17_DownstreamColumnsUntouched ==
    [][C17_ScraperStep =>
          /\ \A k \in DOMAIN txPosts' :
                IF k \in DOMAIN txPosts
                THEN txPosts'[k] = txPosts[k]
                ELSE /\ txPosts'[k].cluster_id = NULL
                     /\ txPosts'[k].sentiment = NULL
          /\ \A k \in DOMAIN posts :
                /\ k \in DOMAIN posts'
                /\ posts'[k] = posts[k]]_vars

C17_Witness ==
    /\ pc = "persist"
    /\ \E j, k \in DOMAIN txPosts :
          /\ txPosts[j].cluster_id = "0"
          /\ txPosts[j].sentiment = "0"
          /\ txPosts[k].cluster_id = NULL
          /\ txPosts[k].sentiment = NULL
          /\ k \notin DOMAIN posts

\* the rows of posts that an INSERT of this run added
C21_InsertedThisRun == {k \in DOMAIN txPosts : fate[txPosts[k].id] = "saved"}

\* C21: as long as the run has not ended with an exception, and when it
\* reports, total_new_posts is the number of rows this run has inserted
\* into posts; it is the number of INSERTs executed at every point
C21_CounterIsInserted ==
    /\ total_new_posts = Cardinality({id \in Ids : fate[id] = "saved"})
    /\ pc # "crashed" => total_new_posts = Cardinality(C21_InsertedThisRun)
    /\ pc = "done" =>
          total_new_posts =
              Cardinality({k \in DOMAIN posts : fate[posts[k].id] = "saved"})

C21_Witness ==
    /\ pc = "done"
    /\ run = 2
    /\ total_new_posts = 1
    /\ Len(posts) = 2

\* C22: the summarizer entry of api_calls is the number of calls that
\* reached the provider during the run
C22_ReportedCallsAreOutbound == api_calls.ai_summarizer = outbound

\* C23: in the committed tables and in those the connection sees, every
\* row of comments has the id of a row of posts as its post_id and no two
\* rows have the same id; an item dropped by this run (failed batch or
\* sentinel summary) has no row in comments; and executing the statement of
\* line 203 for comments that are all in the table leaves the table as it is
C23_CommentsReferToPosts ==
    /\ \A j \in DOMAIN comments : comments[j].post_id \in PostIds(posts)
    /\ \A j \in DOMAIN txComments : txComments[j].post_id \in PostIds(txPosts)
    /\ \A j, k \in DOMAIN txComments :
          txComments[j].id = txComments[k].id => j = k
    /\ \A id \in Ids :
          fate[id] = "dropped" =>
              /\ \A j \in DOMAIN txComments : txComments[j].post_id # id
              /\ \A j \in DOMAIN comments : comments[j].post_id # id
    /\ \A id \in Ids :
          \A cs \in CommentLists :
             (\A i \in DOMAIN cs : <<id, cs[i]>> \in CommentIds(txComments))
                 => InsertOrIgnoreComments(txComments, id, cs) = txComments

C23_Witness ==
    /\ pc = "persist"
    /\ llm_outcome \in FailureKinds
    /\ comments # <<>>
    /\ \E i \in DOMAIN post_batch :
          /\ post_batch[i].top_comments # <<>>
          /\ post_batch[i].id \notin PostIds(txPosts)

====
